---------------------------- MODULE Spec2Model ----------------------------
(***************************************************************************)
(* A model of the XML output format of libosmium                           *)
(* (osmium/io/detail/xml_output_format.hpp) and of the future helpers of   *)
(* osmium/thread/util.hpp.                                                 *)
(*                                                                         *)
(* A std::string is modelled as the sequence of the pieces appended to it, *)
(* each piece being the text of one `+=` / output_formatted call of the    *)
(* source.  A std::future is a record [valid, ready, exc, value].          *)
(***************************************************************************)
EXTENDS Integers, Sequences, FiniteSets, TLC

(***************************************************************************)
(* Bounds of the model.                                                    *)
(***************************************************************************)
\* longest buffer built from RunEntities
MaxLen == 5
\* longest buffer built from AllEntities
MaxShortLen == 1
\* number of times the pool may invoke one block task in SpecBlock
MaxInvocations == 2
\* number of write_header / write_buffer / write_end calls of one session
MaxCalls == 4
\* most tags, node references, members and comments of one entity
MaxChildren == 2
\* longest buffer built from OrderEntities
MaxOrderLen == 3
NumFutures == 2
MaxLiveCalls == 3

(***************************************************************************)
(* State.                                                                  *)
(***************************************************************************)
VARIABLES
    input_file,      \* the osmium::io::File the output format was built from
    m_options,       \* XMLOutputFormat::m_options
    futures,         \* the futures created so far, in creation order
    m_output_queue,  \* the queue of futures (indexes into futures)
    tasks,           \* the block tasks the pool holds, by future
    sink,            \* what the drain forwarded: [src, data]
    drain,           \* "running", or "failed" once a get() has thrown
    calls,           \* history: the calls made on the output format
    jitter,          \* history: some task completed before an earlier one
    failed,          \* history: the futures whose block task threw
    blk,             \* SpecBlock: the block task under invocation
    ret,             \* SpecBlock: the strings its invocations returned
    caller           \* SpecFuture: the thread calling the future utilities

vars == <<input_file, m_options, futures, m_output_queue, tasks, sink, drain, calls,
          jitter, failed, blk, ret, caller>>

session_vars == <<input_file, m_options, futures, m_output_queue, tasks, sink, drain,
                  calls, jitter, failed, caller>>

(***************************************************************************)
(* enum class operation (xml_output_format.hpp:94-99)                      *)
(***************************************************************************)
op_none == "none"
op_create == "create"
op_modify == "modify"
op_delete == "delete"
operation == {op_none, op_create, op_modify, op_delete}

(***************************************************************************)
(* Entities (osmium::Node, Way, Relation, Changeset) as read through the   *)
(* accessors the output format calls.  A value of 0 of version, timestamp, *)
(* uid, changeset, created_at, closed_at means "not set"; tags, nodes,     *)
(* members and discussion are sequences.                                   *)
(***************************************************************************)
Entity(type, visible, version) ==
    [type |-> type, id |-> 1, version |-> version, timestamp |-> 0, uid |-> 0,
     changeset |-> 0, visible |-> visible, location |-> FALSE, tags |-> <<>>,
     nodes |-> <<>>, members |-> <<>>, created_at |-> 0, closed_at |-> 0,
     bounds |-> FALSE, num_changes |-> 0, num_comments |-> 0,
     discussion |-> <<>>]

ObjectTypes == {"node", "way", "relation"}
Versions == {0, 1, 2}

\* every node, way and relation shape the operation inference distinguishes,
\* and a changeset
AllEntities ==
    {Entity(t, vis, ver) : t \in ObjectTypes, vis \in BOOLEAN, ver \in Versions}
        \cup {Entity("changeset", TRUE, 0)}

\* one entity per inferred operation (of three different types), and a changeset
RunEntities ==
    {Entity("node", TRUE, 1), Entity("way", TRUE, 2),
     Entity("relation", FALSE, 2), Entity("changeset", TRUE, 0)}

SeqsUpTo(S, n) == UNION {[1..k -> S] : k \in 0..n}

BlockBuffers == SeqsUpTo(RunEntities, MaxLen) \cup SeqsUpTo(AllEntities, MaxShortLen)

(***************************************************************************)
(* Entities with tags, children and metadata (SpecEntity).                 *)
(***************************************************************************)
TagList(n) == [i \in 1..n |-> [key |-> "k" \o ToString(i), value |-> "v" \o ToString(i)]]

NodeRefList(n) == [i \in 1..n |-> 10 + i]

MemberList(n) ==
    [i \in 1..n |-> [type |-> "way", ref |-> 20 + i, role |-> "role" \o ToString(i)]]

CommentList(n) ==
    [i \in 1..n |-> [uid |-> 30 + i, date |-> 40 + i, text |-> "text" \o ToString(i)]]

\* an object with every combination of present and absent metadata fields
WithMeta(object) ==
    {[object EXCEPT !.version = ver, !.timestamp = ts, !.uid = u, !.changeset = cs,
                    !.visible = vis] :
        ver \in {0, 2}, ts \in {0, 5}, u \in {0, 7}, cs \in {0, 9}, vis \in BOOLEAN}

RichNodes ==
    UNION {WithMeta([Entity("node", TRUE, 0) EXCEPT !.location = loc, !.tags = TagList(nt)]) :
               loc \in BOOLEAN, nt \in 0..MaxChildren}

RichWays ==
    UNION {WithMeta([Entity("way", TRUE, 0) EXCEPT !.nodes = NodeRefList(nn),
                                                   !.tags = TagList(nt)]) :
               nn \in 0..MaxChildren, nt \in 0..MaxChildren}

RichRelations ==
    UNION {WithMeta([Entity("relation", TRUE, 0) EXCEPT !.members = MemberList(nm),
                                                        !.tags = TagList(nt)]) :
               nm \in 0..MaxChildren, nt \in 0..MaxChildren}

\* changesets; the comment count and the discussion are separate fields of
\* osmium::Changeset and need not agree
RichChangesets ==
    {[Entity("changeset", TRUE, 0) EXCEPT !.tags = TagList(nt), !.num_comments = nc,
                                          !.discussion = CommentList(nd),
                                          !.created_at = 3, !.closed_at = closed,
                                          !.uid = u, !.bounds = box] :
        nt \in 0..MaxChildren, nc \in 0..MaxChildren, nd \in 0..MaxChildren,
        closed \in {0, 4}, u \in {0, 7}, box \in BOOLEAN}

\* three entities told apart by type and id
OrderEntities ==
    {[Entity("way", TRUE, 1) EXCEPT !.id = 1, !.nodes = NodeRefList(2), !.tags = TagList(1)],
     [Entity("relation", TRUE, 2) EXCEPT !.id = 2, !.members = MemberList(2),
                                         !.tags = TagList(1)],
     [Entity("node", FALSE, 2) EXCEPT !.id = 3, !.tags = TagList(1)]}

EntityBuffers ==
    {<<e>> : e \in RichNodes \cup RichWays \cup RichRelations \cup RichChangesets}
        \cup SeqsUpTo(OrderEntities, MaxOrderLen)

(***************************************************************************)
(* xml_output_options, as set by the XMLOutputFormat constructor from the  *)
(* osmium::io::File (xml_output_format.hpp:394-400).                       *)
(***************************************************************************)
File(add_metadata, xml_change_format, force_visible_flag, multi) ==
    [is_not_false_add_metadata |-> add_metadata,
     is_true_xml_change_format |-> xml_change_format,
     is_true_force_visible_flag |-> force_visible_flag,
     has_multiple_object_versions |-> multi]

Files == {File(a, c, f, m) : a \in BOOLEAN, c \in BOOLEAN, f \in BOOLEAN, m \in BOOLEAN}

\* one file per configuration the constructor can yield
BlockFiles ==
    {File(a, cf[1], cf[2], FALSE) :
        a \in BOOLEAN, cf \in {<<FALSE, FALSE>>, <<FALSE, TRUE>>, <<TRUE, TRUE>>}}

\* a plain file, a change file asking for the visible flag, a history file
SessionFiles ==
    {File(TRUE, FALSE, FALSE, FALSE), File(TRUE, TRUE, TRUE, FALSE),
     File(TRUE, FALSE, FALSE, TRUE)}

XMLOutputFormat_KeepVisible(file) ==
    [add_metadata |-> file.is_not_false_add_metadata,
     use_change_ops |-> file.is_true_xml_change_format,
     add_visible_flag |-> (file.has_multiple_object_versions
                              \/ file.is_true_force_visible_flag)]

XMLOutputFormat(file) ==
    LET use_change_ops == file.is_true_xml_change_format IN
    [add_metadata |-> file.is_not_false_add_metadata,
     use_change_ops |-> use_change_ops,
     add_visible_flag |-> (file.has_multiple_object_versions
                              \/ file.is_true_force_visible_flag)
                          /\ ~use_change_ops]

(***************************************************************************)
(* XMLOutputBlock: the block task.  b.m_input_buffer is the buffer, b.m_out*)
(* the output string, b.m_last_op the wrapper grouping state, b.pos the    *)
(* number of items osmium::apply has visited in the running invocation.    *)
(***************************************************************************)
\* variant with a defect: the grouping state is shared between the block tasks
\* instead of starting at op_none in each
XMLOutputBlock_SharedLastOp(buffer, options) ==
    [m_input_buffer |-> buffer, m_out |-> <<>>,
     m_last_op |-> IF DOMAIN tasks = {}
                   THEN op_none
                   ELSE tasks[CHOOSE i \in DOMAIN tasks :
                                  \A j \in DOMAIN tasks : j <= i].m_last_op,
     m_options |-> options, pos |-> 0]

XMLOutputBlock(buffer, options) ==
    [m_input_buffer |-> buffer, m_out |-> <<>>, m_last_op |-> op_none,
     m_options |-> options, pos |-> 0]

Out(b, piece) == [b EXCEPT !.m_out = Append(@, piece)]

Spaces(num) == CASE num = 0 -> ""
                 [] num = 2 -> "  "
                 [] num = 4 -> "    "

write_spaces(b, num) == IF num = 0 THEN b ELSE Out(b, Spaces(num))

prefix_spaces(b) == IF b.m_options.use_change_ops THEN 4 ELSE 2

write_prefix(b) == write_spaces(b, prefix_spaces(b))

\* variant with a defect: the visible flag is written whether or not metadata
\* is written
write_meta_VisibleWithoutMetadata(b, object) ==
    LET b0 == Out(b, " id=\"" \o ToString(object.id) \o "\"")
        b1 == IF b.m_options.add_metadata /\ object.version # 0
              THEN Out(b0, " version=\"" \o ToString(object.version) \o "\"")
              ELSE b0
        b2 == IF b.m_options.add_metadata /\ object.timestamp # 0
              THEN Out(Out(Out(b1, " timestamp=\""), ToString(object.timestamp)), "\"")
              ELSE b1
        b3 == IF b.m_options.add_metadata /\ object.uid # 0
              THEN Out(Out(Out(b2, " uid=\"" \o ToString(object.uid) \o "\" user=\""),
                           "user"), "\"")
              ELSE b2
        b4 == IF b.m_options.add_metadata /\ object.changeset # 0
              THEN Out(b3, " changeset=\"" \o ToString(object.changeset) \o "\"")
              ELSE b3
    IN  IF b.m_options.add_visible_flag
        THEN IF object.visible
             THEN Out(b4, " visible=\"true\"")
             ELSE Out(b4, " visible=\"false\"")
        ELSE b4

write_meta(b, object) ==
    LET b0 == Out(b, " id=\"" \o ToString(object.id) \o "\"")
        b1 == IF object.version # 0
              THEN Out(b0, " version=\"" \o ToString(object.version) \o "\"")
              ELSE b0
        b2 == IF object.timestamp # 0
              THEN Out(Out(Out(b1, " timestamp=\""), ToString(object.timestamp)), "\"")
              ELSE b1
        b3 == IF object.uid # 0
              THEN Out(Out(Out(b2, " uid=\"" \o ToString(object.uid) \o "\" user=\""),
                           "user"), "\"")
              ELSE b2
        b4 == IF object.changeset # 0
              THEN Out(b3, " changeset=\"" \o ToString(object.changeset) \o "\"")
              ELSE b3
        b5 == IF b.m_options.add_visible_flag
              THEN IF object.visible
                   THEN Out(b4, " visible=\"true\"")
                   ELSE Out(b4, " visible=\"false\"")
              ELSE b4
    IN  IF b.m_options.add_metadata THEN b5 ELSE b0

RECURSIVE write_tags_from(_, _, _, _)
write_tags_from(b, tags, spaces, i) ==
    IF i > Len(tags) THEN b
    ELSE write_tags_from(
             Out(Out(Out(Out(Out(write_spaces(b, spaces), "  <tag k=\""),
                             tags[i].key), "\" v=\""), tags[i].value), "\"/>\n"),
             tags, spaces, i + 1)

write_tags(b, tags, spaces) == write_tags_from(b, tags, spaces, 1)

RECURSIVE write_comments_from(_, _, _)
write_comments_from(b, comments, i) ==
    IF i > Len(comments) THEN b
    ELSE write_comments_from(
             Out(Out(Out(Out(Out(Out(Out(Out(b,
                 "   <comment uid=\"" \o ToString(comments[i].uid) \o "\" user=\""),
                 "user"), "\" date=\""), ToString(comments[i].date)), "\">\n"),
                 "    <text>"), comments[i].text), "</text>\n   </comment>\n"),
             comments, i + 1)

\* variant with a defect: the discussion block is not closed
write_discussion_NoClose(b, comments) == write_comments_from(b, comments, 1)

write_discussion(b, comments) ==
    Out(write_comments_from(b, comments, 1), "  </discussion>\n")

CloseTag(op) == CASE op = op_create -> "  </create>\n"
                  [] op = op_modify -> "  </modify>\n"
                  [] op = op_delete -> "  </delete>\n"

OpenTag(op) == CASE op = op_create -> "  <create>\n"
                 [] op = op_modify -> "  <modify>\n"
                 [] op = op_delete -> "  <delete>\n"

\* variant with a defect: no early return, the wrapper is closed and re-opened for
\* every entity
open_close_op_tag_Reopen(b, op) ==
    LET b1 == IF b.m_last_op = op_none THEN b ELSE Out(b, CloseTag(b.m_last_op))
        b2 == IF op = op_none THEN b1 ELSE Out(b1, OpenTag(op))
    IN  [b2 EXCEPT !.m_last_op = op]

open_close_op_tag(b, op) ==
    IF op = b.m_last_op THEN b
    ELSE LET b1 == IF b.m_last_op = op_none THEN b ELSE Out(b, CloseTag(b.m_last_op))
             b2 == IF op = op_none THEN b1 ELSE Out(b1, OpenTag(op))
         IN  [b2 EXCEPT !.m_last_op = op]


(***************************************************************************)
(* The operation inferred for a node, way or relation                      *)
(* (xml_output_format.hpp:245, and the same expression at 276 and 303).    *)
(***************************************************************************)
\* variant with a defect: an object without a version counts as created
inferred_operation_AbsentIsCreate(object) ==
    IF object.visible
    THEN (IF object.version <= 1 THEN op_create ELSE op_modify)
    ELSE op_delete

inferred_operation(object) ==
    IF object.visible
    THEN (IF object.version = 1 THEN op_create ELSE op_modify)
    ELSE op_delete

node(b, n) ==
    LET b1 == IF b.m_options.use_change_ops
              THEN open_close_op_tag(b, inferred_operation(n))
              ELSE b
        b2 == write_meta(Out(write_prefix(b1), "<node"), n)
        b3 == IF n.location
              THEN Out(Out(Out(Out(Out(b2, " lat=\""), "lat"), "\" lon=\""), "lon"), "\"")
              ELSE b2
    IN  IF n.tags = <<>>
        THEN Out(b3, "/>\n")
        ELSE Out(write_prefix(write_tags(Out(b3, ">\n"), n.tags, prefix_spaces(b))),
                 "</node>\n")

RECURSIVE write_node_refs_from(_, _, _)
write_node_refs_from(b, nodes, i) ==
    IF i > Len(nodes) THEN b
    ELSE write_node_refs_from(
             Out(write_prefix(b), "  <nd ref=\"" \o ToString(nodes[i]) \o "\"/>\n"),
             nodes, i + 1)

\* variant with a defect: the node references are not looked at before the
\* element is self-closed
way_SelfClosedWithoutTags(b, w) ==
    LET b1 == IF b.m_options.use_change_ops
              THEN open_close_op_tag(b, inferred_operation(w))
              ELSE b
        b2 == write_meta(Out(write_prefix(b1), "<way"), w)
    IN  IF w.tags = <<>>
        THEN Out(b2, "/>\n")
        ELSE Out(write_prefix(
                     write_tags(write_node_refs_from(Out(b2, ">\n"), w.nodes, 1),
                                w.tags, prefix_spaces(b))),
                 "</way>\n")

\* variant with a defect: the tags are written before the node references
way_TagsFirst(b, w) ==
    LET b1 == IF b.m_options.use_change_ops
              THEN open_close_op_tag(b, inferred_operation(w))
              ELSE b
        b2 == write_meta(Out(write_prefix(b1), "<way"), w)
    IN  IF w.tags = <<>> /\ w.nodes = <<>>
        THEN Out(b2, "/>\n")
        ELSE Out(write_prefix(
                     write_node_refs_from(write_tags(Out(b2, ">\n"), w.tags,
                                                     prefix_spaces(b)),
                                          w.nodes, 1)),
                 "</way>\n")

way(b, w) ==
    LET b1 == IF b.m_options.use_change_ops
              THEN open_close_op_tag(b, inferred_operation(w))
              ELSE b
        b2 == write_meta(Out(write_prefix(b1), "<way"), w)
    IN  IF w.tags = <<>> /\ w.nodes = <<>>
        THEN Out(b2, "/>\n")
        ELSE Out(write_prefix(
                     write_tags(write_node_refs_from(Out(b2, ">\n"), w.nodes, 1),
                                w.tags, prefix_spaces(b))),
                 "</way>\n")

RECURSIVE write_members_from(_, _, _)
write_members_from(b, members, i) ==
    IF i > Len(members) THEN b
    ELSE write_members_from(
             Out(Out(Out(Out(Out(write_prefix(b), "  <member type=\""),
                             members[i].type),
                         "\" ref=\"" \o ToString(members[i].ref) \o "\" role=\""),
                     members[i].role), "\"/>\n"),
             members, i + 1)

relation(b, r) ==
    LET b1 == IF b.m_options.use_change_ops
              THEN open_close_op_tag(b, inferred_operation(r))
              ELSE b
        b2 == write_meta(Out(write_prefix(b1), "<relation"), r)
    IN  IF r.tags = <<>> /\ r.members = <<>>
        THEN Out(b2, "/>\n")
        ELSE Out(write_prefix(
                     write_tags(write_members_from(Out(b2, ">\n"), r.members, 1),
                                r.tags, prefix_spaces(b))),
                 "</relation>\n")

changeset(b, c) ==
    LET b1 == Out(Out(b, " <changeset"), " id=\"" \o ToString(c.id) \o "\"")
        b2 == IF c.created_at # 0
              THEN Out(Out(Out(b1, " created_at=\""), ToString(c.created_at)), "\"")
              ELSE b1
        b3 == IF c.closed_at # 0
              THEN Out(Out(Out(b2, " closed_at=\""), ToString(c.closed_at)),
                       "\" open=\"false\"")
              ELSE Out(b2, " open=\"true\"")
        b4 == IF c.uid # 0
              THEN Out(Out(Out(b3, " user=\""), "user"),
                       "\" uid=\"" \o ToString(c.uid) \o "\"")
              ELSE b3
        b5 == IF c.bounds
              THEN Out(Out(Out(Out(b4, " min_lat=\"%.7f\""), " min_lon=\"%.7f\""),
                           " max_lat=\"%.7f\""), " max_lon=\"%.7f\"")
              ELSE b4
        b6 == Out(Out(b5, " num_changes=\"" \o ToString(c.num_changes) \o "\""),
                  " comments_count=\"" \o ToString(c.num_comments) \o "\"")
        b7 == write_tags(Out(b6, ">\n"), c.tags, 0)
        b8 == IF c.num_comments > 0
              THEN write_discussion(Out(b7, "  <discussion>\n"), c.discussion)
              ELSE b7
    IN  IF c.tags = <<>> /\ c.num_comments = 0
        THEN Out(b6, "/>\n")
        ELSE Out(b8, " </changeset>\n")

(***************************************************************************)
(* One step of osmium::apply in operator() (xml_output_format.hpp:230):    *)
(* the handler of the next item of the buffer.                             *)
(***************************************************************************)
\* variant with a defect: a changeset closes the open wrapper
apply_next_ChangesetClosesWrapper(b) ==
    LET item == b.m_input_buffer[b.pos + 1]
        b1 == CASE item.type = "node" -> node(b, item)
                [] item.type = "way" -> way(b, item)
                [] item.type = "relation" -> relation(b, item)
                [] item.type = "changeset" ->
                       changeset(open_close_op_tag(b, op_none), item)
    IN  [b1 EXCEPT !.pos = b.pos + 1]

apply_next(b) ==
    LET item == b.m_input_buffer[b.pos + 1]
        b1 == CASE item.type = "node" -> node(b, item)
                [] item.type = "way" -> way(b, item)
                [] item.type = "relation" -> relation(b, item)
                [] item.type = "changeset" -> changeset(b, item)
    IN  [b1 EXCEPT !.pos = b.pos + 1]

(***************************************************************************)
(* The rest of operator() (xml_output_format.hpp:232-240): the open wrapper*)
(* is closed, the output string is swapped out and returned.  The buffer   *)
(* stays in the block; a later invocation iterates it again from cbegin(). *)
(***************************************************************************)
\* variant with a defect: the wrapper left open at the end of the buffer
operator_call_return_NoClose(b) ==
    [block |-> [b EXCEPT !.m_out = <<>>, !.pos = 0], out |-> b.m_out]

operator_call_return(b) ==
    LET b1 == IF b.m_options.use_change_ops THEN open_close_op_tag(b, op_none) ELSE b
    IN  [block |-> [b1 EXCEPT !.m_out = <<>>, !.pos = 0], out |-> b1.m_out]


(***************************************************************************)
(* std::future<std::string>                                                *)
(***************************************************************************)
\* the future of a promise whose value was set (send_to_output_queue)
ReadyFuture(value) == [valid |-> TRUE, ready |-> TRUE, exc |-> FALSE, value |-> value]

\* the future of a task submitted to the pool and not yet run
PendingFuture == [valid |-> TRUE, ready |-> FALSE, exc |-> FALSE, value |-> <<>>]

\* the future after get(): no shared state is left
InvalidFuture == [valid |-> FALSE, ready |-> FALSE, exc |-> FALSE, value |-> <<>>]

\* variant with a defect: a stored exception is dropped instead of re-thrown
future_get_Swallow(future) ==
    [future |-> InvalidFuture, raised |-> FALSE, value |-> future.value]

\* variant with a defect: the result is read and the shared state kept
future_get_KeepsState(future) ==
    [future |-> future, raised |-> future.exc, value |-> future.value]

\* future.get() on a future that is valid and ready (util.hpp:55 and 66): the
\* stored exception is re-thrown or the value returned, and the future is
\* invalid afterwards
future_get(future) ==
    [future |-> InvalidFuture, raised |-> future.exc, value |-> future.value]

(***************************************************************************)
(* osmium::thread::check_for_exception and wait_until_done (util.hpp:52-68)*)
(* Each is one test and, when it passes, one future.get(); the operators   *)
(* give the outcome of the test.                                           *)
(***************************************************************************)
\* variant with a defect: get() is called whether or not the future has become
\* ready
check_for_exception_NoReadyTest(future) == future.valid

check_for_exception(future) == future.valid /\ future.ready

\* variant with a defect: get() is called without asking valid()
wait_until_done_NoValidTest(future) == TRUE

wait_until_done(future) == future.valid

\* the calling thread: what it last called, on which future, the future before
\* and after the call, whether the call threw and whether it had to wait
IdleCaller ==
    [pc |-> "idle", fn |-> "none", target |-> 0, before |-> InvalidFuture,
     after |-> InvalidFuture, raised |-> FALSE, blocked |-> FALSE]

(***************************************************************************)
(* The header and the footer strings.                                      *)
(***************************************************************************)
Headers ==
    {[generator |-> "gen", xml_josm_upload |-> "true", boxes |-> 1]}

RECURSIVE write_boxes(_, _)
write_boxes(out, n) ==
    IF n = 0 THEN out
    ELSE write_boxes(out \o <<"  <bounds", " minlon=\"%.7f\"", " minlat=\"%.7f\"",
                              " maxlon=\"%.7f\"", " maxlat=\"%.7f\"/>\n">>, n - 1)

header_string(header, options) ==
    LET out0 == <<"<?xml version='1.0' encoding='UTF-8'?>\n">>
        out1 == IF options.use_change_ops
                THEN out0 \o <<"<osmChange version=\"0.6\" generator=\"">>
                ELSE out0 \o <<"<osm version=\"0.6\"">>
                     \o (IF header.xml_josm_upload \in {"true", "false"}
                         THEN <<" upload=\"", header.xml_josm_upload, "\"">>
                         ELSE <<>>)
                     \o <<" generator=\"">>
    IN  write_boxes(out1 \o <<header.generator, "\">\n">>, header.boxes)

\* variant with a defect: the footer closes osm whatever the header opened
footer_string_AlwaysOsm(options) == <<"</osm>\n">>

footer_string(options) ==
    IF options.use_change_ops THEN <<"</osmChange>\n">> ELSE <<"</osm>\n">>

\* the buffers submitted to a session
SessionBuffers ==
    {<<Entity("node", TRUE, 1)>>, <<Entity("way", FALSE, 2)>>}

EmptyTasks == [i \in {} |-> 0]

InitSession(f) ==
    /\ input_file = f
    /\ m_options = XMLOutputFormat(f)
    /\ futures = <<>>
    /\ m_output_queue = <<>>
    /\ tasks = EmptyTasks
    /\ sink = <<>>
    /\ drain = "running"
    /\ calls = <<>>
    /\ jitter = FALSE
    /\ failed = {}
    /\ caller = IdleCaller

(***************************************************************************)
(* SpecBlock: one block task, built from any buffer and any configuration  *)
(* the constructor yields, invoked item by item.                           *)
(***************************************************************************)
InitBlock ==
    /\ \E f \in BlockFiles : InitSession(f)
    /\ \E buffer \in BlockBuffers : blk = XMLOutputBlock(buffer, m_options)
    /\ ret = <<>>

\* osmium::apply calls the handler of the next item
BlockVisit ==
    /\ Len(ret) < MaxInvocations
    /\ blk.pos < Len(blk.m_input_buffer)
    /\ blk' = apply_next(blk)
    /\ UNCHANGED <<ret, session_vars>>

\* operator() returns its string
BlockReturn ==
    /\ Len(ret) < MaxInvocations
    /\ blk.pos = Len(blk.m_input_buffer)
    /\ LET r == operator_call_return(blk)
       IN  /\ blk' = r.block
           /\ ret' = Append(ret, r.out)
    /\ UNCHANGED session_vars

NextBlock == BlockVisit \/ BlockReturn

SpecBlock == InitBlock /\ [][NextBlock]_vars

(***************************************************************************)
(* SpecEntity: one block task over a buffer of entities with tags,         *)
(* children and metadata.                                                  *)
(***************************************************************************)
InitEntity ==
    /\ \E f \in BlockFiles : InitSession(f)
    /\ \E buffer \in EntityBuffers : blk = XMLOutputBlock(buffer, m_options)
    /\ ret = <<>>

SpecEntity == InitEntity /\ [][NextBlock]_vars


(***************************************************************************)
(* Spec: one session.  The caller makes up to MaxCalls calls of            *)
(* write_header, write_buffer and write_end, in any order (the output      *)
(* format keeps no record of the calls made); the workers of the pool run  *)
(* the block tasks item by item, in parallel; one drain consumer pops the  *)
(* queue.                                                                  *)
(***************************************************************************)
Init ==
    /\ \E f \in SessionFiles : InitSession(f)
    /\ blk = XMLOutputBlock(<<>>, m_options)
    /\ ret = <<>>

\* OutputFormat::send_to_output_queue: a promise is made, its future pushed
\* and its value set
send_to_output_queue(data) ==
    /\ futures' = Append(futures, ReadyFuture(data))
    /\ m_output_queue' = Append(m_output_queue, Len(futures) + 1)

write_header(header) ==
    /\ Len(calls) < MaxCalls
    /\ send_to_output_queue(header_string(header, m_options))
    /\ calls' = Append(calls, [op |-> "write_header", arg |-> header])
    /\ UNCHANGED <<input_file, m_options, tasks, sink, drain, jitter, failed, blk, ret,
                   caller>>

\* variant with a defect: the future is pushed at the front of the queue
write_buffer_PushFront(buffer) ==
    /\ Len(calls) < MaxCalls
    /\ futures' = Append(futures, PendingFuture)
    /\ tasks' = tasks @@ ((Len(futures) + 1) :> XMLOutputBlock(buffer, m_options))
    /\ m_output_queue' = <<Len(futures) + 1>> \o m_output_queue
    /\ calls' = Append(calls, [op |-> "write_buffer", arg |-> buffer])
    /\ UNCHANGED <<input_file, m_options, sink, drain, jitter, failed, blk, ret,
                   caller>>

\* variant with a defect: the future of the block task is not pushed to the queue
write_buffer_NoPush(buffer) ==
    /\ Len(calls) < MaxCalls
    /\ futures' = Append(futures, PendingFuture)
    /\ tasks' = tasks @@ ((Len(futures) + 1) :> XMLOutputBlock(buffer, m_options))
    /\ calls' = Append(calls, [op |-> "write_buffer", arg |-> buffer])
    /\ UNCHANGED <<input_file, m_options, m_output_queue, sink, drain, jitter, failed,
                   blk, ret, caller>>

\* Pool::submit hands the block task to the pool and returns its future, which
\* is pushed to the queue
write_buffer(buffer) ==
    /\ Len(calls) < MaxCalls
    /\ futures' = Append(futures, PendingFuture)
    /\ tasks' = tasks @@ ((Len(futures) + 1) :> XMLOutputBlock(buffer, m_options))
    /\ m_output_queue' = Append(m_output_queue, Len(futures) + 1)
    /\ calls' = Append(calls, [op |-> "write_buffer", arg |-> buffer])
    /\ UNCHANGED <<input_file, m_options, sink, drain, jitter, failed, blk, ret,
                   caller>>

\* variant with a defect: the footer is not sent
write_end_NoFooter ==
    /\ Len(calls) < MaxCalls
    /\ calls' = Append(calls, [op |-> "write_end", arg |-> <<>>])
    /\ UNCHANGED <<input_file, m_options, futures, m_output_queue, tasks, sink, drain,
                   jitter, failed, blk, ret,
                   caller>>

write_end ==
    /\ Len(calls) < MaxCalls
    /\ send_to_output_queue(footer_string(m_options))
    /\ calls' = Append(calls, [op |-> "write_end", arg |-> <<>>])
    /\ UNCHANGED <<input_file, m_options, tasks, sink, drain, jitter, failed, blk, ret,
                   caller>>

\* a worker runs the handler of the next item of task i
WorkerVisit(i) ==
    /\ tasks[i].pos < Len(tasks[i].m_input_buffer)
    /\ tasks' = [tasks EXCEPT ![i] = apply_next(@)]
    /\ UNCHANGED <<input_file, m_options, futures, m_output_queue, sink, drain, calls,
                   jitter, failed, blk, ret,
                   caller>>

Remove(f, i) == [k \in DOMAIN f \ {i} |-> f[k]]

\* some future created before i is not fulfilled yet
EarlierPending(i) == \E k \in 1..(i - 1) : futures[k].valid /\ ~futures[k].ready

\* operator() of task i returns: the packaged task sets the future's value
WorkerReturn(i) ==
    /\ tasks[i].pos = Len(tasks[i].m_input_buffer)
    /\ futures' = [futures EXCEPT ![i] = ReadyFuture(operator_call_return(tasks[i]).out)]
    /\ tasks' = Remove(tasks, i)
    /\ jitter' = (jitter \/ EarlierPending(i))
    /\ UNCHANGED <<input_file, m_options, m_output_queue, sink, drain, calls, failed,
                   blk, ret,
                   caller>>

\* the encoding of task i throws: the packaged task stores the exception
WorkerFail(i) ==
    /\ futures' = [futures EXCEPT ![i] = [ReadyFuture(<<>>) EXCEPT !.exc = TRUE]]
    /\ tasks' = Remove(tasks, i)
    /\ jitter' = (jitter \/ EarlierPending(i))
    /\ failed' = failed \cup {i}
    /\ UNCHANGED <<input_file, m_options, m_output_queue, sink, drain, calls, blk, ret,
                   caller>>

\* the drain consumer: the head future is popped and get() waits for it; the
\* string goes to the sink, a re-thrown exception ends the consumer
Drain ==
    /\ drain = "running"
    /\ m_output_queue # <<>>
    /\ LET head == Head(m_output_queue)
           r == future_get(futures[head])
       IN  /\ futures[head].valid
           /\ futures[head].ready
           /\ futures' = [futures EXCEPT ![head] = r.future]
           /\ m_output_queue' = Tail(m_output_queue)
           /\ IF r.raised
              THEN drain' = "failed" /\ sink' = sink
              ELSE drain' = drain
                   /\ sink' = Append(sink, [src |-> head, data |-> r.value])
    /\ UNCHANGED <<input_file, m_options, tasks, calls, jitter, failed, blk, ret,
                   caller>>

Next ==
    \/ \E header \in Headers : write_header(header)
    \/ \E buffer \in SessionBuffers : write_buffer(buffer)
    \/ write_end
    \/ \E i \in DOMAIN tasks : WorkerVisit(i)
    \/ \E i \in DOMAIN tasks : WorkerReturn(i)
    \/ \E i \in DOMAIN tasks : WorkerFail(i)
    \/ Drain

Spec == Init /\ [][Next]_vars

(***************************************************************************)
(* SpecConfig: sessions over every file the constructor can be given; the  *)
(* caller only submits buffers.                                            *)
(***************************************************************************)
InitConfig ==
    /\ \E f \in Files : InitSession(f)
    /\ blk = XMLOutputBlock(<<>>, m_options)
    /\ ret = <<>>

ConfigBuffers == {<<Entity("node", FALSE, 2)>>}

NextConfig ==
    \/ \E buffer \in ConfigBuffers : write_buffer(buffer)
    \/ \E i \in DOMAIN tasks : WorkerVisit(i)
    \/ \E i \in DOMAIN tasks : WorkerReturn(i)
    \/ Drain

SpecConfig == InitConfig /\ [][NextConfig]_vars

(***************************************************************************)
(* SpecLive: a session of up to MaxLiveCalls calls in which no block fails,*)
(* with workers that keep running the tasks they hold and a drain consumer *)
(* that keeps popping the queue.                                           *)
(***************************************************************************)
InitLive ==
    /\ InitSession(File(TRUE, TRUE, FALSE, FALSE))
    /\ blk = XMLOutputBlock(<<>>, m_options)
    /\ ret = <<>>

LiveHeader == Len(calls) < MaxLiveCalls /\ \E header \in Headers : write_header(header)

LiveBuffer == Len(calls) < MaxLiveCalls /\ \E buffer \in SessionBuffers : write_buffer(buffer)

LiveEnd == Len(calls) < MaxLiveCalls /\ write_end

LiveVisit(i) == i \in DOMAIN tasks /\ WorkerVisit(i)

LiveReturn(i) == i \in DOMAIN tasks /\ WorkerReturn(i)

NextLive ==
    \/ LiveHeader
    \/ LiveBuffer
    \/ LiveEnd
    \/ \E i \in 1..MaxLiveCalls : LiveVisit(i)
    \/ \E i \in 1..MaxLiveCalls : LiveReturn(i)
    \/ Drain

\* every worker goes on with the task it holds, the drain consumer goes on
\* popping; the caller may stop calling at any time
SpecLive ==
    /\ InitLive
    /\ [][NextLive]_vars
    /\ \A i \in 1..MaxLiveCalls : WF_vars(LiveVisit(i)) /\ WF_vars(LiveReturn(i))
    /\ WF_vars(Drain)

(***************************************************************************)
(* SpecFuture: one thread calls wait_until_done and check_for_exception on *)
(* NumFutures futures, each of which starts invalid, pending, or fulfilled *)
(* with a value or with an exception; the pending ones are fulfilled at any*)
(* time by their producers.                                                *)
(***************************************************************************)
FailedFuture == [ReadyFuture(<<>>) EXCEPT !.exc = TRUE]

FutureShapes == {InvalidFuture, PendingFuture, ReadyFuture(<<"data">>), FailedFuture}

InitFuture ==
    /\ input_file = File(TRUE, FALSE, FALSE, FALSE)
    /\ m_options = XMLOutputFormat(input_file)
    /\ futures \in [1..NumFutures -> FutureShapes]
    /\ m_output_queue = <<>>
    /\ tasks = EmptyTasks
    /\ sink = <<>>
    /\ drain = "running"
    /\ calls = <<>>
    /\ jitter = FALSE
    /\ failed = {i \in 1..NumFutures : futures[i].exc}
    /\ caller = IdleCaller
    /\ blk = XMLOutputBlock(<<>>, m_options)
    /\ ret = <<>>

\* the thread calls fn on future i; get says whether the test of fn passed and
\* future.get() is called
Invoke(fn, i, get) ==
    /\ caller.pc = "idle"
    /\ Len(calls) < MaxCalls
    /\ calls' = Append(calls, [op |-> fn, arg |-> i])
    /\ LET returned == [pc |-> "idle", fn |-> fn, target |-> i, before |-> futures[i],
                        after |-> futures[i], raised |-> FALSE, blocked |-> FALSE]
       IN  IF ~get
           THEN caller' = returned /\ futures' = futures
           ELSE IF ~futures[i].valid
           \* get() on a future without shared state is undefined
           THEN /\ \E raised \in BOOLEAN : caller' = [returned EXCEPT !.raised = raised]
                /\ futures' = futures
           ELSE IF futures[i].ready
           THEN LET r == future_get(futures[i])
                IN  /\ caller' = [returned EXCEPT !.after = r.future, !.raised = r.raised]
                    /\ futures' = [futures EXCEPT ![i] = r.future]
           \* get() waits for the result
           ELSE /\ caller' = [returned EXCEPT !.pc = "blocked", !.blocked = TRUE]
                /\ futures' = futures
    /\ UNCHANGED <<input_file, m_options, m_output_queue, tasks, sink, drain, jitter,
                   failed, blk, ret>>

CallWaitUntilDone(i) == Invoke("wait_until_done", i, wait_until_done(futures[i]))

CallCheckForException(i) ==
    Invoke("check_for_exception", i, check_for_exception(futures[i]))

\* the result has arrived: the waiting get() returns or re-throws
Wake ==
    /\ caller.pc = "blocked"
    /\ futures[caller.target].ready
    /\ LET r == future_get(futures[caller.target])
       IN  /\ caller' = [caller EXCEPT !.pc = "idle", !.after = r.future,
                                       !.raised = r.raised]
           /\ futures' = [futures EXCEPT ![caller.target] = r.future]
    /\ UNCHANGED <<input_file, m_options, m_output_queue, tasks, sink, drain, calls,
                   jitter, failed, blk, ret>>

\* the producer of future i stores a value or an exception
Fulfil(i, exc) ==
    /\ futures[i].valid
    /\ ~futures[i].ready
    /\ futures' = [futures EXCEPT ![i] = IF exc THEN FailedFuture
                                         ELSE ReadyFuture(<<"data">>)]
    /\ failed' = IF exc THEN failed \cup {i} ELSE failed
    /\ UNCHANGED <<input_file, m_options, m_output_queue, tasks, sink, drain, calls,
                   jitter, blk, ret, caller>>

NextFuture ==
    \/ \E i \in 1..NumFutures : CallWaitUntilDone(i)
    \/ \E i \in 1..NumFutures : CallCheckForException(i)
    \/ Wake
    \/ \E i \in 1..NumFutures : \E exc \in BOOLEAN : Fulfil(i, exc)

SpecFuture == InitFuture /\ [][NextFuture]_vars


(***************************************************************************)
(* Properties of the session (Spec, SpecConfig).                           *)
(***************************************************************************)
IsBlock(k) == calls[k].op = "write_buffer"

Unfulfilled(k) == futures[k].valid /\ ~futures[k].ready

\* C1: the strings reach the sink in submission order whatever the order in
\* which the workers complete: the k-th string forwarded is the one of the k-th
\* future pushed, so the output of buffer i precedes that of buffer j for i < j,
\* and nothing is forwarded from behind an unfulfilled future, fulfilled or not.
C1_SubmissionOrder ==
    /\ \A k \in 1..Len(sink) : sink[k].src = k
    /\ \A k \in 1..Len(sink) : \A j \in 1..Len(futures) :
           Unfulfilled(j) => sink[k].src < j

\* C1 witness: two blocks were forwarded one after the other although some
\* task had completed before an earlier one.
C1_Witness ==
    /\ jitter
    /\ \E k \in 1..(Len(sink) - 1) : IsBlock(sink[k].src) /\ IsBlock(sink[k + 1].src)

SessionShape ==
    /\ Len(calls) >= 2
    /\ calls[1].op = "write_header"
    /\ calls[Len(calls)].op = "write_end"
    /\ \A k \in 2..(Len(calls) - 1) : IsBlock(k)

DrainComplete ==
    /\ drain = "running"
    /\ m_output_queue = <<>>
    /\ DOMAIN tasks = {}

\* C2: after write_header, N calls of write_buffer, write_end and a complete
\* drain the sink holds exactly N+2 strings: the header string first, one
\* string per buffer, each once, and the footer string last.
C2_SessionOutput ==
    (SessionShape /\ DrainComplete) =>
        /\ Len(sink) = Len(calls)
        /\ sink[1].data = header_string(calls[1].arg, m_options)
        /\ sink[Len(sink)].data = footer_string(m_options)
        /\ \A k \in 1..Len(sink) : sink[k].src = k

\* C2 witness: a drained session of a header, two buffers and the footer.
C2_Witness == SessionShape /\ DrainComplete /\ Len(calls) = 4 /\ Len(sink) = 4

\* the calls the lifecycle NotStarted -> HeaderWritten -> Writing* -> Ended
\* forbids
OutOfOrder(k) ==
    \/ calls[k].op = "write_buffer"
          /\ ~\E j \in 1..(k - 1) : calls[j].op = "write_header"
    \/ calls[k].op = "write_header"
          /\ \E j \in 1..(k - 1) : calls[j].op \in {"write_header", "write_buffer"}
    \/ \E j \in 1..(k - 1) : calls[j].op = "write_end"

\* C3: a write_buffer before write_header, a second write_header, a
\* write_header after a buffer, and any call after write_end are rejected and
\* put nothing into the output queue: no more futures were pushed than calls
\* were made in lifecycle order.
C3_OutOfOrderRejected ==
    Len(futures) <= Cardinality({k \in 1..Len(calls) : ~OutOfOrder(k)})

\* C4: when the encoding of block k fails, the sink holds the outputs before k
\* in submission order and no output of k or of anything submitted after k, and
\* once the handle of k has been awaited the drain has stopped.
C4_FailureStopsSession ==
    \A k \in failed :
        /\ \A n \in 1..Len(sink) : sink[n].src = n /\ sink[n].src < k
        /\ (\A n \in 1..Len(m_output_queue) : m_output_queue[n] # k)
               => drain = "failed"

\* C4 witness: the second block failed, the first one was forwarded, the drain
\* has stopped and a later block, fulfilled, is left in the queue.
C4_Witness ==
    /\ drain = "failed"
    /\ \E k \in failed :
           /\ Len(sink) = k - 1
           /\ Len(sink) >= 1
           /\ IsBlock(1)
           /\ \E n \in 1..Len(m_output_queue) :
                  LET j == m_output_queue[n]
                  IN  j > k /\ IsBlock(j) /\ futures[j].ready /\ j \notin failed

\* C5: the configuration the constructor builds, and the copy every block task
\* holds, never has add_visible_flag and use_change_ops both set.
C5_VisibleFlagXorChangeOps ==
    /\ ~(m_options.add_visible_flag /\ m_options.use_change_ops)
    /\ \A i \in DOMAIN tasks :
           ~(tasks[i].m_options.add_visible_flag /\ tasks[i].m_options.use_change_ops)

\* C5 witness: a block task of a file that asks for the change format and for
\* the visible flag.
C5_Witness ==
    /\ input_file.is_true_xml_change_format
    /\ input_file.is_true_force_visible_flag
    /\ input_file.has_multiple_object_versions
    /\ DOMAIN tasks # {}
    /\ m_options.use_change_ops

\* the string of a block computed from its buffer and the configuration alone
RECURSIVE RunBlock(_)
RunBlock(b) ==
    IF b.pos = Len(b.m_input_buffer)
    THEN operator_call_return(b).out
    ELSE RunBlock(apply_next(b))

ExpectedString(call, options) ==
    CASE call.op = "write_header" -> header_string(call.arg, options)
      [] call.op = "write_end" -> footer_string(options)
      [] call.op = "write_buffer" ->
             RunBlock([m_input_buffer |-> call.arg, m_out |-> <<>>,
                       m_last_op |-> op_none, m_options |-> options, pos |-> 0])

\* C10: the text of a block is a function of its buffer and the configuration
\* only: every fulfilled block future and every string in the sink is the one
\* computed from that call's argument alone, whatever else was submitted and
\* however the workers interleaved; the sink is a prefix of a sequence the
\* calls determine.
C10_BlockTextDeterminedByBuffer ==
    /\ \A k \in 1..Len(sink) :
           sink[k].data = ExpectedString(calls[sink[k].src], m_options)
    /\ \A k \in 1..Len(futures) :
           (futures[k].ready /\ ~futures[k].exc)
               => futures[k].value = ExpectedString(calls[k], m_options)

\* C10 witness: two equal buffers were encoded while other tasks ran, with
\* out-of-order completion, and both strings are in the sink.
C10_Witness ==
    /\ jitter
    /\ m_options.use_change_ops
    /\ \E i \in 1..Len(sink) : \E j \in 1..Len(sink) :
           /\ i < j
           /\ IsBlock(sink[i].src) /\ IsBlock(sink[j].src)
           /\ calls[sink[i].src].arg = calls[sink[j].src].arg
           /\ sink[i].data = sink[j].data
           /\ \E n \in 1..Len(calls) : IsBlock(n) /\ calls[n].arg # calls[sink[i].src].arg


(***************************************************************************)
(* Properties of one block task (SpecBlock).                               *)
(***************************************************************************)
\* the item the running invocation visited last
LastItem == blk.m_input_buffer[blk.pos]

\* an invocation has just run the handler of a node, way or relation of a
\* change file
ObjectVisited ==
    /\ blk.pos > 0
    /\ blk.m_options.use_change_ops
    /\ LastItem.type \in ObjectTypes

\* C6 as stated: delete if not visible, else create if the version is 1 or
\* absent (0), else modify.
C6_AbsentVersionIsCreate ==
    ObjectVisited =>
        blk.m_last_op = IF ~LastItem.visible THEN op_delete
                        ELSE IF LastItem.version \in {0, 1} THEN op_create
                        ELSE op_modify

\* C6 amended: delete if not visible, else create if the version is exactly 1,
\* else modify; a visible object without a version (0) is a modify.
C6_InferredOperation ==
    ObjectVisited =>
        blk.m_last_op = IF ~LastItem.visible THEN op_delete
                        ELSE IF LastItem.version = 1 THEN op_create
                        ELSE op_modify

\* C6 witness: a visible relation without a version was handled and the
\* wrapper opened is modify.
C6_Witness ==
    /\ ObjectVisited
    /\ LastItem.visible
    /\ LastItem.version = 0
    /\ LastItem.type = "relation"
    /\ blk.m_last_op = op_modify

OpenTags == {OpenTag(op) : op \in operation \ {op_none}}
CloseTags == {CloseTag(op) : op \in operation \ {op_none}}
ElementOpens == {"<node", "<way", "<relation"}

\* the wrapper tags and the element opens of a string, in order
Skeleton(out) == SelectSeq(out, LAMBDA piece : piece \in OpenTags \cup CloseTags \cup ElementOpens)

\* the operation of an object, written out as in C6 amended
OperationOf(object) ==
    IF ~object.visible THEN op_delete
    ELSE IF object.version = 1 THEN op_create
    ELSE op_modify

\* one open tag where a maximal run of equal operations starts, one close tag
\* where it ends, the elements in between
RECURSIVE RunSkeleton(_, _)
RunSkeleton(buffer, i) ==
    IF i > Len(buffer) THEN <<>>
    ELSE LET op == OperationOf(buffer[i])
             starts == i = 1 \/ OperationOf(buffer[i - 1]) # op
             ends == i = Len(buffer) \/ OperationOf(buffer[i + 1]) # op
         IN  (IF starts THEN <<OpenTag(op)>> ELSE <<>>)
                 \o <<"<" \o buffer[i].type>>
                 \o (IF ends THEN <<CloseTag(op)>> ELSE <<>>)
                 \o RunSkeleton(buffer, i + 1)

OnlyObjects(buffer) == \A i \in 1..Len(buffer) : buffer[i].type \in ObjectTypes

\* C7: in a change file, the string a block of nodes, ways and relations returns
\* holds one wrapper open/close pair per maximal run of consecutive entities
\* with the same inferred operation, named after it and enclosing exactly the
\* entities of the run.
C7_OneWrapperPerRun ==
    (blk.m_options.use_change_ops /\ OnlyObjects(blk.m_input_buffer)) =>
        \A k \in 1..Len(ret) : Skeleton(ret[k]) = RunSkeleton(blk.m_input_buffer, 1)

\* C7 witness: operations [create, create, modify, delete, delete] gave
\* exactly 3 open tags and 3 close tags.
C7_Witness ==
    /\ blk.m_options.use_change_ops
    /\ Len(ret) >= 1
    /\ Len(blk.m_input_buffer) = 5
    /\ [i \in 1..5 |-> OperationOf(blk.m_input_buffer[i])]
           = <<op_create, op_create, op_modify, op_delete, op_delete>>
    /\ OnlyObjects(blk.m_input_buffer)
    /\ Len(SelectSeq(ret[1], LAMBDA piece : piece \in OpenTags)) = 3
    /\ Len(SelectSeq(ret[1], LAMBDA piece : piece \in CloseTags)) = 3

\* the wrapper open after the pieces i.. of out, given the one open before
\* them; "unbalanced" when a wrapper opens inside another or a close tag does
\* not match the open wrapper
RECURSIVE WrapperScan(_, _, _)
WrapperScan(out, i, open) ==
    IF i > Len(out) THEN open
    ELSE IF out[i] \in OpenTags
         THEN (IF open = op_none
               THEN WrapperScan(out, i + 1,
                                CHOOSE op \in operation \ {op_none} : OpenTag(op) = out[i])
               ELSE "unbalanced")
         ELSE IF out[i] \in CloseTags
              THEN (IF open # op_none /\ open # "unbalanced" /\ CloseTag(open) = out[i]
                    THEN WrapperScan(out, i + 1, op_none)
                    ELSE "unbalanced")
              ELSE WrapperScan(out, i + 1, open)

\* C8: every string a block task returns is wrapper-balanced: at most one
\* wrapper is open at any point, each open tag is followed by the close tag of
\* the same operation before another opens, no wrapper is left open at the
\* end, and the grouping state is none when the call has returned.
C8_WrapperBalanced ==
    /\ \A k \in 1..Len(ret) : WrapperScan(ret[k], 1, op_none) = op_none
    /\ WrapperScan(blk.m_out, 1, op_none) = blk.m_last_op
    /\ blk.pos = 0 => blk.m_last_op = op_none

\* C8 witness: a returned string whose last piece closes the wrapper that was
\* still open after the last entity, here a changeset inside a wrapper.
C8_Witness ==
    /\ Len(ret) >= 1
    /\ blk.pos = 0
    /\ Len(blk.m_input_buffer) >= 2
    /\ blk.m_input_buffer[Len(blk.m_input_buffer)].type = "changeset"
    /\ Len(ret[1]) > 0
    /\ ret[1][Len(ret[1])] \in CloseTags

\* C9: a block task encodes its buffer at most once; the second invocation
\* returns no second encoding.
C9_EncodedAtMostOnce == Len(ret) <= 1


(***************************************************************************)
(* Properties of the rendering of one entity (SpecEntity).                 *)
(***************************************************************************)
Count(out, piece) == Len(SelectSeq(out, LAMBDA p : p = piece))

\* a string without its wrapper tags
NoWrapper(out) == SelectSeq(out, LAMBDA p : p \notin OpenTags \cup CloseTags)

\* the buffer holds one node, way or relation
OneObject ==
    /\ Len(blk.m_input_buffer) = 1
    /\ blk.m_input_buffer[1].type \in ObjectTypes

HasChildren(e) ==
    \/ e.tags # <<>>
    \/ e.type = "way" /\ e.nodes # <<>>
    \/ e.type = "relation" /\ e.members # <<>>

ClosingTag(e) == "</" \o e.type \o ">\n"

\* C11: a node without tags, a way without tags and node references, a
\* relation without tags and members is one self-closed element without a
\* closing tag; any other has an open tag, its children and exactly one closing
\* tag, which ends the element.
C11_SelfClosingRule ==
    OneObject =>
        \A k \in 1..Len(ret) :
            LET e == blk.m_input_buffer[1]
                out == NoWrapper(ret[k])
            IN  IF ~HasChildren(e)
                THEN /\ Count(out, "/>\n") = 1
                     /\ out[Len(out)] = "/>\n"
                     /\ Count(out, ">\n") = 0
                     /\ Count(out, ClosingTag(e)) = 0
                ELSE /\ Count(out, "/>\n") = 0
                     /\ Count(out, ">\n") = 1
                     /\ Count(out, ClosingTag(e)) = 1
                     /\ out[Len(out)] = ClosingTag(e)
                     /\ Count(out, "  <tag k=\"") = Len(e.tags)

\* C11 witness: a relation without members to which one tag was added is
\* rendered with an open tag and a closing tag.
C11_Witness ==
    /\ OneObject
    /\ Len(ret) >= 1
    /\ blk.m_input_buffer[1].type = "relation"
    /\ blk.m_input_buffer[1].members = <<>>
    /\ Len(blk.m_input_buffer[1].tags) = 1
    /\ Count(ret[1], "</relation>\n") = 1
    /\ Count(ret[1], "/>\n") = 0


\* the buffer holds one changeset
OneChangeset ==
    /\ Len(blk.m_input_buffer) = 1
    /\ blk.m_input_buffer[1].type = "changeset"

CommentOpen(comment) == "   <comment uid=\"" \o ToString(comment.uid) \o "\" user=\""

CommentClose == "</text>\n   </comment>\n"

\* the discussion tags and the comment opens of a string, in order
DiscussionSkeleton(out) ==
    SelectSeq(out, LAMBDA p : \/ p \in {"  <discussion>\n", "  </discussion>\n"}
                              \/ \E n \in 1..(MaxChildren + 1) :
                                     p = CommentOpen(CommentList(n)[n]))

ChangesetSelfClosed(out) ==
    /\ Count(out, "/>\n") = 1
    /\ out[Len(out)] = "/>\n"
    /\ Count(out, " </changeset>\n") = 0
    /\ DiscussionSkeleton(out) = <<>>

\* C12 as stated: self-closed without a discussion block exactly when there
\* are no tags and num_comments is 0; with num_comments > 0 a closing tag, one
\* discussion block and as many comment entries as num_comments.
C12_CommentEntryPerCount ==
    OneChangeset =>
        \A k \in 1..Len(ret) :
            LET e == blk.m_input_buffer[1]
                out == ret[k]
            IN  /\ ChangesetSelfClosed(out) <=> (e.tags = <<>> /\ e.num_comments = 0)
                /\ e.num_comments > 0 =>
                       /\ Count(out, " </changeset>\n") = 1
                       /\ Count(out, "  <discussion>\n") = 1
                       /\ Count(out, "  </discussion>\n") = 1
                       /\ Count(out, CommentClose) = e.num_comments

\* C12 amended: self-closed without a discussion block exactly when there are
\* no tags and num_comments is 0; with num_comments > 0 a closing tag and one
\* discussion block holding one comment entry per entry of the changeset's
\* discussion, in sequence order, however many num_comments says; with
\* num_comments = 0 no discussion block and no comment entry.
C12_CommentEntryPerDiscussionEntry ==
    OneChangeset =>
        \A k \in 1..Len(ret) :
            LET e == blk.m_input_buffer[1]
                out == ret[k]
            IN  /\ ChangesetSelfClosed(out) <=> (e.tags = <<>> /\ e.num_comments = 0)
                /\ e.num_comments > 0 =>
                       /\ Count(out, " </changeset>\n") = 1
                       /\ out[Len(out)] = " </changeset>\n"
                       /\ DiscussionSkeleton(out)
                              = <<"  <discussion>\n">>
                                    \o [i \in 1..Len(e.discussion) |->
                                            CommentOpen(e.discussion[i])]
                                    \o <<"  </discussion>\n">>
                       /\ Count(out, CommentClose) = Len(e.discussion)
                /\ e.num_comments = 0 =>
                       /\ DiscussionSkeleton(out) = <<>>
                       /\ Count(out, CommentClose) = 0

\* C12 witness: a changeset whose num_comments is 1 and whose discussion holds
\* two comments was rendered with two comment entries in one discussion block.
C12_Witness ==
    /\ OneChangeset
    /\ Len(ret) >= 1
    /\ blk.m_input_buffer[1].num_comments = 1
    /\ Len(blk.m_input_buffer[1].discussion) = 2
    /\ Count(ret[1], CommentClose) = 2
    /\ Count(ret[1], "  <discussion>\n") = 1


\* the values the attributes of an object take in the inputs
MetaValues == 0..9

\* 1 when the condition holds, else 0
Once(cond) == IF cond THEN 1 ELSE 0

\* C13: of the attributes write_meta writes for a node, way or relation, id
\* is always there; version, timestamp, uid with user, and changeset are there
\* exactly when add_metadata is on and the field is present (non-zero); the
\* visible flag is there exactly when add_metadata and add_visible_flag are
\* both on; with add_metadata off only id is written.
C13_MetadataAttributes ==
    OneObject =>
        \A k \in 1..Len(ret) :
            LET e == blk.m_input_buffer[1]
                out == ret[k]
                meta == blk.m_options.add_metadata
                flag == blk.m_options.add_visible_flag
            IN  /\ \A v \in MetaValues \cup {e.id} :
                       /\ Count(out, " id=\"" \o ToString(v) \o "\"") = Once(v = e.id)
                       /\ Count(out, " version=\"" \o ToString(v) \o "\"")
                              = Once(meta /\ v # 0 /\ v = e.version)
                       /\ Count(out, " uid=\"" \o ToString(v) \o "\" user=\"")
                              = Once(meta /\ v # 0 /\ v = e.uid)
                       /\ Count(out, " changeset=\"" \o ToString(v) \o "\"")
                              = Once(meta /\ v # 0 /\ v = e.changeset)
                /\ Count(out, " timestamp=\"") = Once(meta /\ e.timestamp # 0)
                /\ Count(out, " visible=\"true\"") = Once(meta /\ flag /\ e.visible)
                /\ Count(out, " visible=\"false\"") = Once(meta /\ flag /\ ~e.visible)

\* C13 witness: with metadata and the visible flag on, an invisible object with
\* every field present was rendered with all its attributes.
C13_Witness ==
    /\ OneObject
    /\ Len(ret) >= 1
    /\ blk.m_options.add_metadata
    /\ blk.m_options.add_visible_flag
    /\ LET e == blk.m_input_buffer[1]
       IN  /\ e.version = 2 /\ e.timestamp = 5 /\ e.uid = 7 /\ e.changeset = 9
           /\ ~e.visible
    /\ Count(ret[1], " version=\"2\"") = 1
    /\ Count(ret[1], " visible=\"false\"") = 1


ElementOpen(e) == IF e.type = "changeset" THEN " <changeset" ELSE "<" \o e.type

NodeRefPiece(ref) == "  <nd ref=\"" \o ToString(ref) \o "\"/>\n"

MemberPiece(member) == "\" ref=\"" \o ToString(member.ref) \o "\" role=\""

TagOpen == "  <tag k=\""

TagKeys == {TagList(n)[n].key : n \in 1..(MaxChildren + 1)}

OrderPieces ==
    {"<node", "<way", "<relation", " <changeset"}
        \cup {NodeRefPiece(NodeRefList(n)[n]) : n \in 1..(MaxChildren + 1)}
        \cup {MemberPiece(MemberList(n)[n]) : n \in 1..(MaxChildren + 1)}
        \cup TagKeys

\* the element opens, node references, members and tag keys of a string, in
\* the order they were written
OrderSkeleton(out) == SelectSeq(out, LAMBDA p : p \in OrderPieces)

\* what the buffer asks for: per entity its element open, then its node
\* references or members in order, then its tags in order
RECURSIVE ExpectedOrder(_, _)
ExpectedOrder(buffer, i) ==
    IF i > Len(buffer) THEN <<>>
    ELSE LET e == buffer[i]
         IN  <<ElementOpen(e)>>
                 \o [j \in 1..Len(e.nodes) |-> NodeRefPiece(e.nodes[j])]
                 \o [j \in 1..Len(e.members) |-> MemberPiece(e.members[j])]
                 \o [j \in 1..Len(e.tags) |-> e.tags[j].key]
                 \o ExpectedOrder(buffer, i + 1)

\* C18: a returned string holds one element per entity of the buffer, in
\* buffer order; inside a way the node references come in sequence order and
\* all before the tags, inside a relation the members come in sequence order
\* and all before the tags.
C18_BufferOrder ==
    \A k \in 1..Len(ret) :
        /\ OrderSkeleton(ret[k]) = ExpectedOrder(blk.m_input_buffer, 1)
        /\ Count(ret[k], TagOpen) = Len(SelectSeq(ret[k], LAMBDA p : p \in TagKeys))

\* C18 witness: a buffer of a relation, a way and a relation again, each with
\* two children and a tag, was rendered.
C18_Witness ==
    /\ Len(ret) >= 1
    /\ Len(blk.m_input_buffer) = 3
    /\ blk.m_input_buffer[1].type = "relation"
    /\ blk.m_input_buffer[2].type = "way"
    /\ blk.m_input_buffer[3].type = "relation"
    /\ Len(OrderSkeleton(ret[1])) = 12


(***************************************************************************)
(* Changesets and the wrapper (SpecBlock).                                 *)
(***************************************************************************)
\* the wrapper tags and the element opens of a string, changesets included
FullSkeleton(out) ==
    SelectSeq(out, LAMBDA piece :
        piece \in OpenTags \cup CloseTags \cup ElementOpens \cup {" <changeset"})

\* the nodes, ways and relations of a sequence of entities
Objects(buffer) == SelectSeq(buffer, LAMBDA e : e.type \in ObjectTypes)

\* the wrapper a changeset leaves alone: objects open and close wrappers as
\* their operations change, a changeset is written into whatever is open
RECURSIVE TransparentSkeleton(_, _, _)
TransparentSkeleton(buffer, i, open) ==
    IF i > Len(buffer)
    THEN (IF open = op_none THEN <<>> ELSE <<CloseTag(open)>>)
    ELSE IF buffer[i].type = "changeset"
         THEN <<" <changeset">> \o TransparentSkeleton(buffer, i + 1, open)
         ELSE LET op == OperationOf(buffer[i])
              IN  (IF open = op THEN <<>>
                   ELSE (IF open = op_none THEN <<>> ELSE <<CloseTag(open)>>)
                            \o <<OpenTag(op)>>)
                      \o <<"<" \o buffer[i].type>>
                      \o TransparentSkeleton(buffer, i + 1, op)

\* C20: rendering a changeset neither opens nor closes a wrapper and leaves
\* the grouping state as it was: after any number of items the grouping state
\* is the operation of the last node, way or relation visited (none when there
\* was none), a changeset after an object is written inside that object's
\* wrapper, and a buffer of changesets only yields no wrapper tag.
C20_ChangesetLeavesWrapper ==
    LET buffer == blk.m_input_buffer
        visited == Objects(SubSeq(buffer, 1, blk.pos))
    IN  /\ blk.m_last_op
               = IF blk.m_options.use_change_ops /\ visited # <<>>
                 THEN OperationOf(visited[Len(visited)])
                 ELSE op_none
        /\ \A k \in 1..Len(ret) :
               /\ FullSkeleton(ret[k])
                      = IF blk.m_options.use_change_ops
                        THEN TransparentSkeleton(buffer, 1, op_none)
                        ELSE [i \in 1..Len(buffer) |-> ElementOpen(buffer[i])]
               /\ Objects(buffer) = <<>> =>
                      \A i \in 1..Len(ret[k]) : ret[k][i] \notin OpenTags \cup CloseTags

\* C20 witness: in a change file a node, a changeset and the node again were
\* rendered into one wrapper with the changeset inside it.
C20_Witness ==
    /\ blk.m_options.use_change_ops
    /\ Len(ret) >= 1
    /\ Len(blk.m_input_buffer) = 3
    /\ blk.m_input_buffer[1].type = "node"
    /\ blk.m_input_buffer[2].type = "changeset"
    /\ blk.m_input_buffer[3].type = "node"
    /\ FullSkeleton(ret[1])
           = <<OpenTag(op_create), "<node", " <changeset", "<node", CloseTag(op_create)>>


(***************************************************************************)
(* Wrappers and blocks, header and footer (Spec).                          *)
(***************************************************************************)
\* the strings of the calls of one kind that reached the sink or a fulfilled
\* future
Produced(op) ==
    {sink[k].data : k \in {j \in 1..Len(sink) : calls[sink[j].src].op = op}}
        \cup {futures[k].value :
                  k \in {j \in 1..Len(futures) :
                             /\ calls[j].op = op
                             /\ futures[j].valid /\ futures[j].ready /\ ~futures[j].exc}}

\* C17: the grouping state belongs to the block task and starts at none: a
\* task that has visited nothing has no wrapper open whatever the other tasks
\* are doing, and every block string is balanced on its own, so that in a
\* change file the string of a block of objects begins with the open tag of
\* its first entity's operation and ends with the close tag of its last
\* entity's; no wrapper spans two blocks.
C17_WrapperPerBlock ==
    /\ \A i \in DOMAIN tasks :
           LET visited == Objects(SubSeq(tasks[i].m_input_buffer, 1, tasks[i].pos))
           IN  tasks[i].m_last_op
                   = IF m_options.use_change_ops /\ visited # <<>>
                     THEN OperationOf(visited[Len(visited)])
                     ELSE op_none
    /\ \A k \in 1..Len(futures) :
           (IsBlock(k) /\ futures[k].valid /\ futures[k].ready /\ ~futures[k].exc) =>
               LET out == futures[k].value
                   buffer == calls[k].arg
               IN  /\ WrapperScan(out, 1, op_none) = op_none
                   /\ (m_options.use_change_ops /\ Objects(buffer) = buffer
                           /\ buffer # <<>>) =>
                          /\ out[1] = OpenTag(OperationOf(buffer[1]))
                          /\ out[Len(out)] = CloseTag(OperationOf(buffer[Len(buffer)]))
    /\ \A k \in 1..Len(sink) :
           IsBlock(sink[k].src) => WrapperScan(sink[k].data, 1, op_none) = op_none

\* C17 witness: in a change file two consecutive blocks with the same
\* operation reached the sink, each with its own wrapper.
C17_Witness ==
    /\ m_options.use_change_ops
    /\ \E k \in 1..(Len(sink) - 1) :
           /\ IsBlock(sink[k].src) /\ IsBlock(sink[k + 1].src)
           /\ calls[sink[k].src].arg = calls[sink[k + 1].src].arg
           /\ sink[k].data[Len(sink[k].data)] \in CloseTags
           /\ sink[k + 1].data[1] \in OpenTags

OpensChange(header) == Count(header, "<osmChange version=\"0.6\" generator=\"") = 1

OpensOsm(header) == Count(header, "<osm version=\"0.6\"") = 1

\* C19: the footer closes the element the header opened: the header opens
\* osmChange and the footer is </osmChange> exactly when use_change_ops is on,
\* otherwise the header opens osm and the footer is </osm>.
C19_FooterClosesHeader ==
    /\ \A h \in Produced("write_header") :
           /\ OpensChange(h) <=> m_options.use_change_ops
           /\ OpensOsm(h) <=> ~m_options.use_change_ops
    /\ \A f \in Produced("write_end") :
           /\ f = <<"</osmChange>\n">> <=> m_options.use_change_ops
           /\ f = <<"</osm>\n">> <=> ~m_options.use_change_ops
    /\ \A h \in Produced("write_header") : \A f \in Produced("write_end") :
           OpensChange(h) <=> (f = <<"</osmChange>\n">>)

\* C19 witness: the header and the footer of a change file reached the sink.
C19_Witness ==
    /\ m_options.use_change_ops
    /\ \E k \in 1..Len(sink) : \E j \in 1..Len(sink) :
           /\ k < j
           /\ calls[sink[k].src].op = "write_header"
           /\ calls[sink[j].src].op = "write_end"
           /\ OpensChange(sink[k].data)
           /\ sink[j].data = <<"</osmChange>\n">>


(***************************************************************************)
(* Properties of the future utilities (SpecFuture).                        *)
(***************************************************************************)
Returned(fn) == caller.fn = fn /\ caller.pc = "idle"

\* the call that has just returned was not the first wait_until_done on its
\* future
LaterWait ==
    \E k \in 1..(Len(calls) - 1) :
        calls[k] = [op |-> "wait_until_done", arg |-> caller.target]

\* C14: wait_until_done can be called any number of times on a future.  A
\* call on a valid future waits only while the result is missing, consumes
\* the result (the future is invalid afterwards) and re-throws a stored
\* exception; a call after an earlier wait_until_done on the same future, and
\* any call on an invalid future, returns at once without waiting or throwing
\* and leaves the future as it was.
C14_WaitUntilDone ==
    caller.fn = "wait_until_done" =>
        /\ caller.pc = "blocked" => caller.before.valid /\ ~caller.before.ready
        /\ caller.pc = "idle" =>
               /\ caller.before.valid =>
                      /\ caller.blocked <=> ~caller.before.ready
                      /\ ~caller.after.valid
                      /\ caller.raised <=> caller.target \in failed
               /\ ~caller.before.valid =>
                      /\ ~caller.blocked
                      /\ ~caller.raised
                      /\ caller.after = caller.before
               /\ LaterWait => ~caller.before.valid

\* C14 witness: a second wait_until_done on a future whose first
\* wait_until_done had consumed a failure returned at once.
C14_Witness ==
    /\ Returned("wait_until_done")
    /\ Len(calls) = 2
    /\ calls[1] = calls[2]
    /\ caller.target \in failed
    /\ ~caller.before.valid
    /\ ~caller.raised /\ ~caller.blocked

\* C15: check_for_exception never waits.  On an invalid future and on one
\* whose result is missing it returns and leaves the future as it was; on one
\* fulfilled with a failure it re-throws, whatever the state of the other
\* futures; on one fulfilled with a value it returns.
C15_CheckForException ==
    caller.fn = "check_for_exception" =>
        /\ caller.pc = "idle"
        /\ ~caller.blocked
        /\ (~caller.before.valid \/ ~caller.before.ready) =>
               /\ ~caller.raised
               /\ caller.after = caller.before
        /\ (caller.before.valid /\ caller.before.ready) =>
               (caller.raised <=> caller.before.exc)

\* C15 witness: check_for_exception re-threw the failure of one future while
\* the result of another was still missing.
C15_Witness ==
    /\ Returned("check_for_exception")
    /\ caller.raised
    /\ caller.before.exc
    /\ \E j \in 1..NumFutures :
           j # caller.target /\ futures[j].valid /\ ~futures[j].ready

\* the check_for_exception that has just returned or thrown found its future
\* valid and fulfilled
ConsumedByCheck ==
    /\ Returned("check_for_exception")
    /\ caller.before.valid
    /\ caller.before.ready

\* the next call of either utility is made on the future of the last call
CallsSameFuture ==
    /\ Len(calls') = Len(calls) + 1
    /\ calls'[Len(calls')].arg = caller.target

\* C21: check_for_exception consumes a fulfilled result.  When it has
\* returned or thrown on a future that was valid and ready, the future is
\* invalid and holds no value, and stays so; the next wait_until_done or
\* check_for_exception on that future finds it invalid and returns at once
\* without throwing, waiting or changing anything.  A future that was invalid
\* or not ready, and only such a future, is left exactly as it was.
C21_CheckConsumesResult ==
    /\ [](ConsumedByCheck =>
              /\ caller.after = InvalidFuture
              /\ futures[caller.target] = InvalidFuture)
    /\ [](Returned("check_for_exception") =>
              (caller.after = caller.before
                   <=> ~(caller.before.valid /\ caller.before.ready)))
    /\ [][(ConsumedByCheck /\ CallsSameFuture) =>
              /\ futures' = futures
              /\ caller'.pc = "idle"
              /\ ~caller'.before.valid
              /\ caller'.after = caller'.before
              /\ ~caller'.raised
              /\ ~caller'.blocked]_vars

\* C21 witness: check_for_exception threw the failure of a fulfilled future,
\* and the wait_until_done that followed on the same future found it invalid
\* and returned at once.
C21_Witness ==
    /\ Returned("wait_until_done")
    /\ Len(calls) = 2
    /\ calls[1] = [op |-> "check_for_exception", arg |-> caller.target]
    /\ calls[2] = [op |-> "wait_until_done", arg |-> caller.target]
    /\ caller.target \in failed
    /\ ~caller.before.valid
    /\ ~caller.raised /\ ~caller.blocked
    /\ futures[caller.target] = InvalidFuture


(***************************************************************************)
(* Progress of the drain (SpecLive).                                       *)
(***************************************************************************)
\* C16: with workers and a drain consumer that keep running and no failing
\* block, every string pushed to the queue is eventually forwarded to the sink:
\* once the k-th future exists, the sink eventually holds its string at
\* position k.
C16_EventuallyForwarded ==
    \A k \in 1..MaxLiveCalls :
        (Len(futures) >= k) ~> (Len(sink) >= k /\ sink[k].src = k)

\* C16 witness: the drain runs while the caller is still submitting: the
\* string of an early block is in the sink before any later call was made,
\* with neither a later buffer nor write_end submitted yet.
C16_Witness ==
    /\ Len(calls) >= 2
    /\ Len(calls) < MaxLiveCalls
    /\ \A k \in 1..Len(calls) : calls[k].op # "write_end"
    /\ IsBlock(Len(calls))
    /\ Len(sink) = Len(calls)
    /\ sink[Len(sink)].src = Len(calls)
    /\ sink[Len(sink)].data = ExpectedString(calls[Len(calls)], m_options)

=============================================================================
